---- MODULE Spec2Model ----
(***************************************************************************)
(* HistoricalFIFO (src/queue/historical.go): a keyed store `items` plus a  *)
(* FIFO of pending keys `queue`, guarded by one lock and one condition     *)
(* variable.  Every public method is one critical section; it is modelled  *)
(* as one action.  Pop is the only method that can suspend (cond.Wait), so *)
(* the consumer has a position: idle, waiting or woken.                    *)
(*                                                                         *)
(* Time is counted in ticks of lingerTTL (5 minutes).  The GC period of     *)
(* merge (256 in the source) is scaled down to GCInterval so that sweeps   *)
(* happen within the explored depth.                                       *)
(***************************************************************************)
EXTENDS Integers, Sequences, FiniteSets, TLC

\* ------------------------------------------------------------------ bounds
MaxQueue == 3
MaxTime == 2
GCInterval == 2

\* --------------------------------------------------------------- constants
ADD_EVENT == 1
UPDATE_EVENT == 2
DELETE_EVENT == 4
POP_EVENT == 8
LingerTTL == 1

\* ------------------------------------------------------------------ inputs
Keys == {"a", "b"}

\* A UniqueCopyable value: its unique identifier and the rest of its content.
Value(u, d) == [uid |-> u, data |-> d]

Vals == {Value(1, 1), Value(1, 2), Value(2, 1)}

NoVal == Value(0, 0)

\* The values the callers supply per key: every kind of change (same value,
\* same identifier with other content, other identifier) on "a"; "b" is the
\* second key, with one value.
ValsOf(id) == IF id = "a" THEN Vals ELSE {Value(1, 1)}

\* Event masks handed to Readd: ADD, POP, DELETE|POP.
Masks == {ADD_EVENT, POP_EVENT, DELETE_EVENT + POP_EVENT}

\* The maps handed to Replace.
NewStates ==
  UNION {{f \in [S -> Vals] : \A id \in S : f[id] \in ValsOf(id)} : S \in SUBSET Keys}

VARIABLES items, queue, gcc, now, consumer, notifications, last,
          lock, pc, held, channel

vars == <<items, queue, gcc, now, consumer, notifications, last,
          lock, pc, held, channel>>

\* The goroutines of the concurrent specification.
Threads == {1, 2}

\* ------------------------------------------------------------ entry model
EventBits == {ADD_EVENT, UPDATE_EVENT, DELETE_EVENT, POP_EVENT}

\* x & y != 0 on the event bits.
BitAndNonZero(x, y) ==
  \E b \in EventBits : (x \div b) % 2 = 1 /\ (y \div b) % 2 = 1

GetUID(v) == v.uid

\* A deep clone: a new object with the same content.
Copy(v) == Value(v.uid, v.data)

DeepEqual(x, y) == x.uid = y.uid /\ x.data = y.data

\* &entry{value, event}
entry(v, ev) == [value |-> v, event |-> ev, tomb |-> FALSE, expiration |-> 0]

\* deletedEntry without the write of the Delete tag.
deletedEntryKeepsEvent(ent, exp) ==
  [value |-> ent.value, event |-> ent.event, tomb |-> TRUE, expiration |-> exp]

\* deletedEntry that re-tags the record and does not wrap it.
deletedEntryPlain(ent, exp) ==
  [value |-> ent.value, event |-> DELETE_EVENT, tomb |-> FALSE, expiration |-> 0]

\* ent.event = DELETE_EVENT; &deletedEntry{ent, expiration}
deletedEntry(ent, exp) ==
  [value |-> ent.value, event |-> DELETE_EVENT, tomb |-> TRUE, expiration |-> exp]

\* (e *entry) Is(types)
EntryIs(e, types) == BitAndNonZero(types, e.event)

\* ------------------------------------------------------------------- gc
\* Reclaimed without the test of the expiration.
ReclaimedUnexpired(its, t) ==
  {id \in DOMAIN its : EntryIs(its[id], DELETE_EVENT)}

\* The keys gc removes: Delete-tagged entries whose expiration is before t.
Reclaimed(its, t) ==
  {id \in DOMAIN its : EntryIs(its[id], DELETE_EVENT) /\ its[id].expiration < t}

\* gc that leaves the queue as it is.
gcKeepsQueue(its, q, t) ==
  LET deleted == Reclaimed(its, t)
  IN [items |-> [id \in (DOMAIN its) \ deleted |-> its[id]],
      queue |-> q]

gc(its, q, t) ==
  LET deleted == Reclaimed(its, t)
  IN [items |-> [id \in (DOMAIN its) \ deleted |-> its[id]],
      queue |-> SelectSeq(q, LAMBDA id : id \notin deleted)]

\* ---------------------------------------------------------------- merge
\* The entry merge stores for id, and the notifications it produces.
MergeEntry(its, t, id, obj) ==
  IF id \notin DOMAIN its
  THEN [items |-> (id :> entry(Copy(obj), ADD_EVENT)) @@ its,
        notes |-> <<entry(Copy(obj), ADD_EVENT)>>]
  ELSE IF ~EntryIs(its[id], DELETE_EVENT) /\ GetUID(its[id].value) # GetUID(obj)
  THEN [items |-> [its EXCEPT ![id] = entry(Copy(obj), ADD_EVENT)],
        notes |-> <<deletedEntry(its[id], t + LingerTTL), entry(Copy(obj), ADD_EVENT)>>]
  ELSE IF ~DeepEqual(obj, its[id].value)
  THEN [items |-> [its EXCEPT ![id] = entry(Copy(obj), UPDATE_EVENT)],
        notes |-> <<entry(Copy(obj), UPDATE_EVENT)>>]
  ELSE [items |-> its, notes |-> <<>>]

\* merge on the store state s = [items, queue, gcc]: the new store state and
\* the notifications.  Every GCInterval-th merge ends with a gc sweep.
merge(s, t, id, obj) ==
  LET m == MergeEntry(s.items, t, id, obj)
      g == s.gcc + 1
  IN IF g % GCInterval = 0
     THEN LET c == gc(m.items, s.queue, t)
          IN [items |-> c.items, queue |-> c.queue, gcc |-> 0, notes |-> m.notes]
     ELSE [items |-> m.items, queue |-> s.queue, gcc |-> g, notes |-> m.notes]

\* The record of the last critical section: the method, its key (for Pop the
\* key whose value it returned) and Readd's mask.
Call(op, id, t) == [op |-> op, id |-> id, mask |-> t]

\* Broadcast that wakes nobody.
BroadcastLost(c) == c

\* cond.Broadcast(): a consumer suspended in Wait is woken.
Broadcast(c) == IF c = "waiting" THEN "woken" ELSE c

\* ------------------------------------------------------------------ Init
Init ==
  /\ items = <<>>
  /\ queue = <<>>
  /\ gcc = 0
  /\ now = 0
  /\ consumer = "idle"
  /\ notifications = <<>>
  /\ last = Call("NewFIFO", "a", 0)
  /\ lock = 0
  /\ pc = [th \in Threads |-> "idle"]
  /\ held = [th \in Threads |-> <<>>]
  /\ channel = [msg |-> entry(NoVal, ADD_EVENT), made |-> entry(NoVal, ADD_EVENT), by |-> 0]

\* ------------------------------------------------------------------- Add
\* AddQueue with the new slot put at the head of the queue.
AddQueueFront(its, q, id) ==
  IF id \notin DOMAIN its THEN <<id>> \o q
  ELSE IF EntryIs(its[id], DELETE_EVENT + POP_EVENT) THEN <<id>> \o q
  ELSE q

\* The queue after Add's enqueue decision.
AddQueue(its, q, id) ==
  IF id \notin DOMAIN its THEN Append(q, id)
  ELSE IF EntryIs(its[id], DELETE_EVENT + POP_EVENT) THEN Append(q, id)
  ELSE q

Add(id, v) ==
  LET q == AddQueue(items, queue, id)
      r == merge([items |-> items, queue |-> q, gcc |-> gcc], now, id, v)
  IN /\ Len(q) <= MaxQueue
     /\ items' = r.items
     /\ queue' = r.queue
     /\ gcc' = r.gcc
     /\ notifications' = r.notes
     /\ consumer' = Broadcast(consumer)
     /\ last' = Call("Add", id, 0)
     /\ UNCHANGED now

\* Update is the same as Add.
Update(id, v) == Add(id, v)

\* ----------------------------------------------------------------- Readd
\* ReaddRejects with the mask test inverted.
ReaddRejectsInverted(its, id, t) == id \in DOMAIN its /\ EntryIs(its[id], t)

\* ReaddRejects with a tombstone taken to match every mask.
ReaddRejectsTombstonePasses(its, id, t) ==
  id \in DOMAIN its /\ ~EntryIs(its[id], t) /\ ~EntryIs(its[id], DELETE_EVENT)

\* The guard of Readd: an entry exists and its event is not in the mask t.
ReaddRejects(its, id, t) == id \in DOMAIN its /\ ~EntryIs(its[id], t)

ReaddQueue(its, q, id) ==
  IF id \in DOMAIN its /\ EntryIs(its[id], DELETE_EVENT + POP_EVENT)
  THEN Append(q, id)
  ELSE q

Readd(id, v, t) ==
  IF ReaddRejects(items, id, t)
  THEN /\ notifications' = <<>>
       /\ last' = Call("Readd", id, t)
       /\ UNCHANGED <<items, queue, gcc, now, consumer>>
  ELSE LET q == ReaddQueue(items, queue, id)
           r == merge([items |-> items, queue |-> q, gcc |-> gcc], now, id, v)
       IN /\ Len(q) <= MaxQueue
          /\ items' = r.items
          /\ queue' = r.queue
          /\ gcc' = r.gcc
          /\ notifications' = r.notes
          /\ consumer' = Broadcast(consumer)
          /\ last' = Call("Readd", id, t)
          /\ UNCHANGED now

\* ---------------------------------------------------------------- Delete
Delete(id) ==
  /\ IF id \in DOMAIN items /\ ~EntryIs(items[id], DELETE_EVENT)
     THEN LET deleteEvent == deletedEntry(items[id], now + LingerTTL)
          IN /\ items' = [items EXCEPT ![id] = deleteEvent]
             /\ notifications' = <<deleteEvent>>
     ELSE /\ items' = items
          /\ notifications' = <<>>
  /\ last' = Call("Delete", id, 0)
  /\ UNCHANGED <<queue, gcc, now, consumer>>

\* ------------------------------------------------------------------- Pop
\* Pop's loop from a non-waiting position: stale heads are discarded; it
\* ends with a live head (done) or with an empty queue (cond.Wait).
RECURSIVE PopLoop(_, _)
\* PopLoop without the test for a Delete- or Pop-tagged head.
PopLoopNoStaleTest(its, q) ==
  IF Len(q) = 0 THEN [done |-> FALSE, id |-> "a", value |-> NoVal, items |-> its, queue |-> q]
  ELSE LET id == Head(q)
       IN IF id \notin DOMAIN its
          THEN PopLoop(its, Tail(q))
          ELSE [done |-> TRUE, id |-> id, value |-> its[id].value,
                items |-> [its EXCEPT ![id] = entry(its[id].value, POP_EVENT)],
                queue |-> Tail(q)]

PopLoop(its, q) ==
  IF Len(q) = 0 THEN [done |-> FALSE, id |-> "a", value |-> NoVal, items |-> its, queue |-> q]
  ELSE LET id == Head(q)
       IN IF id \notin DOMAIN its \/ EntryIs(its[id], DELETE_EVENT + POP_EVENT)
          THEN PopLoop(its, Tail(q))
          ELSE [done |-> TRUE, id |-> id, value |-> its[id].value,
                items |-> [its EXCEPT ![id] = entry(its[id].value, POP_EVENT)],
                queue |-> Tail(q)]

PopBody ==
  LET r == PopLoop(items, queue)
  IN /\ items' = r.items
     /\ queue' = r.queue
     /\ IF r.done
        THEN /\ consumer' = "idle"
             /\ notifications' = <<entry(r.value, POP_EVENT)>>
             /\ last' = Call("Pop", r.id, 0)
        ELSE /\ consumer' = "waiting"
             /\ notifications' = <<>>
             /\ last' = Call("PopWait", "a", 0)
     /\ UNCHANGED <<gcc, now>>

\* The consumer calls Pop.
Pop == consumer = "idle" /\ PopBody

\* The consumer returns from cond.Wait after a Broadcast and re-runs the loop.
PopResume == consumer = "woken" /\ PopBody

\* --------------------------------------------------------------- Replace
\* The orders in which a range over a map with key set S can visit it.
Orders(S) ==
  {o \in [1..Cardinality(S) -> S] : \A i, j \in 1..Cardinality(S) : o[i] = o[j] => i = j}

\* ReplaceTombstoned without the test for an entry that is a tombstone already.
ReplaceTombstonedAgain(its, idToObj) ==
  {id \in DOMAIN its : id \notin DOMAIN idToObj}

\* The first loop of Replace: the entries absent from idToObj and not
\* Delete-tagged become tombstones; each is a notification, in visit order.
ReplaceTombstoned(its, idToObj) ==
  {id \in DOMAIN its : id \notin DOMAIN idToObj /\ ~EntryIs(its[id], DELETE_EVENT)}

ReplaceDelete(its, idToObj, t) ==
  [id \in DOMAIN its |->
     IF id \in ReplaceTombstoned(its, idToObj)
     THEN deletedEntry(its[id], t + LingerTTL)
     ELSE its[id]]

\* The second loop of Replace, over idToObj in the order ord from index i:
\* append the key, merge, collect the notifications.
RECURSIVE ReplaceMerge(_, _, _, _, _)
ReplaceMerge(s, t, idToObj, ord, i) ==
  IF i > Len(ord) THEN [items |-> s.items, queue |-> s.queue, gcc |-> s.gcc, notes |-> <<>>]
  ELSE LET id == ord[i]
           r == merge([items |-> s.items, queue |-> Append(s.queue, id), gcc |-> s.gcc],
                      t, id, idToObj[id])
           rest == ReplaceMerge(r, t, idToObj, ord, i + 1)
       IN [items |-> rest.items, queue |-> rest.queue, gcc |-> rest.gcc,
           notes |-> r.notes \o rest.notes]

Replace(idToObj) ==
  \E o1 \in Orders(ReplaceTombstoned(items, idToObj)), o2 \in Orders(DOMAIN idToObj) :
    LET dead == ReplaceDelete(items, idToObj, now)
        r == ReplaceMerge([items |-> dead, queue |-> <<>>, gcc |-> gcc], now, idToObj, o2, 1)
    IN /\ items' = r.items
       /\ queue' = r.queue
       /\ gcc' = r.gcc
       /\ notifications' = [i \in 1..Len(o1) |-> dead[o1[i]]] \o r.notes
       /\ consumer' = IF Len(r.queue) > 0 THEN Broadcast(consumer) ELSE consumer
       /\ last' = Call("Replace", "a", 0)
       /\ UNCHANGED now

\* ------------------------------------------------------------------ time
\* time.Now() between two calls: a pause longer than lingerTTL.  (A shorter
\* pause expires no tombstone that the longer one does not.)
Tick ==
  /\ now + LingerTTL + 1 <= MaxTime
  /\ now' = now + LingerTTL + 1
  /\ UNCHANGED <<items, queue, gcc, consumer, notifications, last>>

\* One caller at a time: no call starts before the last one has returned, so
\* the lock is free and no notification is outstanding between the steps.
Sequential == UNCHANGED <<lock, pc, held, channel>>

Next ==
  \/ \E id \in Keys : \E v \in ValsOf(id) : Add(id, v) /\ Sequential
  \/ \E id \in Keys : \E v \in ValsOf(id) : Update(id, v) /\ Sequential
  \/ \E id \in Keys : \E v \in ValsOf(id) : \E t \in Masks : Readd(id, v, t) /\ Sequential
  \/ \E id \in Keys : Delete(id) /\ Sequential
  \/ Pop /\ Sequential
  \/ PopResume /\ Sequential
  \/ \E idToObj \in NewStates : Replace(idToObj) /\ Sequential
  \/ Tick /\ Sequential

Spec == Init /\ [][Next]_vars

\* ------------------------------------------------- concurrent callers
\* The same methods called by the goroutines Threads.  A call is three kinds
\* of step: the critical section (Lock, the body, every write to the store),
\* the deferred Unlock, and the deferred loop that hands the collected
\* notifications to the carrier one by one.  A notification is a pointer: the
\* plain records merge and Pop hand out are the records they stored, and the
\* carrier copies what the pointer shows when it is called.
\*
\* lock     the goroutine that holds f.lock, 0 when it is free
\* pc       per goroutine: idle, locked, carry, waiting (in cond.Wait), woken
\* held     per goroutine: the notifications of its call not yet carried;
\*          ent is what the pointer shows now, made what it showed when the
\*          critical section produced it, ref the key under which the
\*          record is still stored ("" for none)
\* channel  the last message the carrier sent, and what it showed when made

\* The callers of the concurrent specification use one key and two values,
\* which differ in their identifier.
ConcKeys == {"a"}

ConcVals == {Value(1, 1), Value(2, 1)}

ConcStates == {m \in NewStates : \A id \in DOMAIN m : id \in ConcKeys /\ m[id] \in ConcVals}

\* The step re-tagged in place the record stored for k: Delete and the first
\* loop of Replace (the stored entry becomes a tombstone around it), or the
\* hidden delete of merge (the stored value has another identifier).
Retagged(its, its2, k) ==
  /\ k \in DOMAIN its /\ ~EntryIs(its[k], DELETE_EVENT)
  /\ k \in DOMAIN its2
  /\ \/ its2[k].tomb
     \/ GetUID(its2[k].value) # GetUID(its[k].value)

\* What the notifications h held by another goroutine show after a critical
\* section that took the store from its to its2.
Alias(h, its, its2) ==
  [i \in 1..Len(h) |->
     IF h[i].ref = "" THEN h[i]
     ELSE IF Retagged(its, its2, h[i].ref)
     THEN [ent |-> [h[i].ent EXCEPT !.event = DELETE_EVENT], made |-> h[i].made, ref |-> ""]
     ELSE IF h[i].ref \in DOMAIN its2 /\ its2[h[i].ref] = its[h[i].ref] THEN h[i]
     ELSE [h[i] EXCEPT !.ref = ""]]

\* The key under which the record of the notification n is stored: a plain
\* notification is the record its call stored; a tombstone notification is
\* never written again.
RefOf(its2, n) ==
  IF ~n.tomb /\ \E k \in DOMAIN its2 : its2[k] = n
  THEN CHOOSE k \in DOMAIN its2 : its2[k] = n
  ELSE ""

\* The notifications slice of a call, in the order of its appends.
Collect(its2, notes) ==
  [i \in 1..Len(notes) |-> [ent |-> notes[i], made |-> notes[i], ref |-> RefOf(its2, notes[i])]]

\* The goroutine th has run a critical section and holds the lock; wake tells
\* whether the section called cond.Broadcast().
Enter(th, wake) ==
  /\ lock = 0
  /\ lock' = th
  /\ pc' = [t \in Threads |->
              IF t = th THEN "locked" ELSE IF wake THEN Broadcast(pc[t]) ELSE pc[t]]
  /\ held' = [t \in Threads |->
                IF t = th THEN Collect(items', notifications')
                ELSE Alias(held[t], items, items')]
  /\ UNCHANGED channel

CAdd(th, id, v) == pc[th] = "idle" /\ Add(id, v) /\ Enter(th, TRUE)

CUpdate(th, id, v) == CAdd(th, id, v)

CReadd(th, id, v, t) ==
  pc[th] = "idle" /\ Readd(id, v, t) /\ Enter(th, ~ReaddRejects(items, id, t))

CDelete(th, id) == pc[th] = "idle" /\ Delete(id) /\ Enter(th, FALSE)

CReplace(th, idToObj) ==
  pc[th] = "idle" /\ Replace(idToObj) /\ Enter(th, Len(queue') > 0)

\* Pop's loop by th: it returns holding the lock, or finds the queue empty
\* and suspends in cond.Wait, which releases the lock.
CPopBody(th) ==
  LET r == PopLoop(items, queue)
  IN /\ items' = r.items
     /\ queue' = r.queue
     /\ UNCHANGED <<gcc, now, consumer>>
     /\ IF r.done
        THEN /\ notifications' = <<entry(r.value, POP_EVENT)>>
             /\ last' = Call("Pop", r.id, 0)
             /\ Enter(th, FALSE)
        ELSE /\ notifications' = <<>>
             /\ last' = Call("PopWait", "a", 0)
             /\ lock = 0
             /\ pc' = [pc EXCEPT ![th] = "waiting"]
             /\ UNCHANGED <<lock, held, channel>>

CPop(th) == pc[th] = "idle" /\ CPopBody(th)

\* th returns from cond.Wait after a Broadcast, with the lock again.
CPopResume(th) == pc[th] = "woken" /\ CPopBody(th)

\* The deferred f.lock.Unlock(): the first deferred call to run.  The
\* critical section is over: its notifications are in held.
Unlock(th) ==
  /\ pc[th] = "locked" /\ lock = th
  /\ lock' = 0
  /\ pc' = [pc EXCEPT ![th] = IF held[th] = <<>> THEN "idle" ELSE "carry"]
  /\ notifications' = <<>>
  /\ last' = Call("Unlock", "a", 0)
  /\ UNCHANGED <<items, queue, gcc, now, consumer, held, channel>>

\* DeliverNext taking the notifications from the end of the slice.
DeliverLast(h) == [e |-> h[Len(h)], rest |-> SubSeq(h, 1, Len(h) - 1)]

\* The deferred loop over the notifications: the next one to hand over.
DeliverNext(h) == [e |-> Head(h), rest |-> Tail(h)]

\* f.carrier(e): the carrier sends a copy of what e shows now.
Carry(th) ==
  /\ pc[th] = "carry"
  /\ LET d == DeliverNext(held[th])
     IN /\ channel' = [msg |-> [d.e.ent EXCEPT !.value = Copy(d.e.ent.value)],
                       made |-> d.e.made, by |-> th]
        /\ held' = [held EXCEPT ![th] = d.rest]
        /\ pc' = [pc EXCEPT ![th] = IF d.rest = <<>> THEN "idle" ELSE "carry"]
  /\ UNCHANGED <<items, queue, gcc, now, consumer, notifications, last, lock>>

ConcNext ==
  \/ \E th \in Threads : \E id \in ConcKeys : \E v \in ConcVals : CAdd(th, id, v)
  \/ \E th \in Threads : \E id \in ConcKeys : \E v \in ConcVals : CUpdate(th, id, v)
  \/ \E th \in Threads : \E id \in ConcKeys : \E v \in ConcVals : \E t \in Masks :
       CReadd(th, id, v, t)
  \/ \E th \in Threads : \E id \in ConcKeys : CDelete(th, id)
  \/ \E th \in Threads : CPop(th)
  \/ \E th \in Threads : CPopResume(th)
  \/ \E th \in Threads : \E idToObj \in ConcStates : CReplace(th, idToObj)
  \/ \E th \in Threads : Unlock(th)
  \/ \E th \in Threads : Carry(th)

ConcSpec == Init /\ [][ConcNext]_vars

\* Fair scheduling: a goroutine that can run runs, and one that needs the
\* lock gets it when the lock is free again and again.
FairConc ==
  /\ ConcSpec
  /\ \A th \in Threads :
       /\ WF_vars(Unlock(th))
       /\ WF_vars(Carry(th))
       /\ SF_vars(CPopResume(th))
\* ------------------------------------------------------- read-only queries
\* An entry Get, List and ContainedIDs do not skip.
Live(its, id) == id \in DOMAIN its /\ ~EntryIs(its[id], DELETE_EVENT + POP_EVENT)

\* ContainedIDs(): the keys of the entries not tagged Delete or Pop.
ContainedIDs(its) == {id \in DOMAIN its : ~EntryIs(its[id], DELETE_EVENT + POP_EVENT)}

\* List(): copies of the values of those entries, as a bag (the order of the
\* slice is the map's iteration order).
List(its) ==
  LET ids == ContainedIDs(its)
  IN [v \in {Copy(its[id].value) : id \in ids} |->
        Cardinality({id \in ids : Copy(its[id].value) = v})]

\* Get(id): <<value, TRUE>> or <<NoVal, FALSE>>.
Get(its, id) ==
  IF id \in DOMAIN its /\ ~EntryIs(its[id], DELETE_EVENT + POP_EVENT)
  THEN <<Copy(its[id].value), TRUE>>
  ELSE <<NoVal, FALSE>>

\* ------------------------------------------------------------- properties
\* The step is a critical section of method op on key id.  (Tick is the one
\* step that leaves `last` alone; it is the one step that moves the clock.)
Called(op, id) == now' = now /\ last'.op = op /\ last'.id = id

\* The number of slots of q that hold id.
Count(q, id) == Cardinality({i \in 1..Len(q) : q[i] = id})

\* C1 (dedup with latest value): after every Add/Update of key K, that is at
\* the end of every sequence of Add/Update calls on K, pending contains K
\* exactly once and K's entry is live and holds the value of that last call,
\* so the Pop that dequeues K returns it.
C1_DedupLatest ==
  [][\A id \in Keys : \A v \in ValsOf(id) :
       (Called("Add", id) /\ Add(id, v)) =>
         /\ Count(queue', id) = 1
         /\ Get(items', id) = <<v, TRUE>>]_vars

\* C2 (re-queue after Pop): when Pop has just returned the value v of key K,
\* a retry by Add(K, v) or Readd(K, v, POP_EVENT) makes K a live pending
\* entry again: Get(K) finds v and K is in pending.
C2_RequeueAfterPop ==
  [][\A id \in Keys : \A v \in ValsOf(id) :
       (/\ last.op = "Pop" /\ last.id = id
        /\ id \in DOMAIN items /\ items[id] = entry(v, POP_EVENT)
        /\ (Called("Add", id) \/ Called("Readd", id))
        /\ (Add(id, v) \/ Readd(id, v, POP_EVENT)))
       => /\ Get(items', id) = <<v, TRUE>>
          /\ Count(queue', id) >= 1]_vars

\* C3 (at most one pending slot): a key whose entry is live occurs at most
\* once in pending.
C3_AtMostOneSlot ==
  \A id \in Keys : Live(items, id) => Count(queue, id) <= 1
\* The index of the first slot of q whose key is live, 0 when there is none.
FirstLive(its, q) ==
  LET S == {i \in 1..Len(q) : Live(its, q[i])}
  IN IF S = {} THEN 0 ELSE CHOOSE i \in S : \A j \in S : i <= j

\* q without the slots of the keys a sweep removed from the store in this step.
Survivors(q) == SelectSeq(q, LAMBDA k : ~(k \in DOMAIN items /\ k \notin DOMAIN items'))

\* An Add/Update/Readd of id keeps the order of pending: a new slot goes to
\* the tail, and none is added for a key that is live.
KeepsOrder(id) ==
  \/ queue' = Survivors(queue)
  \/ ~Live(items, id) /\ queue' = Survivors(Append(queue, id))

\* C4 (FIFO order of delivery): a Pop that returns serves the oldest slot
\* whose key is live (the slots ahead of it are stale) and returns that
\* key's value, so of two live slots the one appended first is served
\* first; Add/Update/Readd append only at the tail and never move the slot
\* of a live key; a GC sweep and every other call keep the relative order of
\* the surviving slots.
C4_FifoOrder ==
  [][
      /\ \A id \in Keys :
           Called("Pop", id) =>
             LET i == FirstLive(items, queue)
             IN /\ i > 0
                /\ id = queue[i]
                /\ notifications' = <<entry(items[id].value, POP_EVENT)>>
                /\ queue' = SubSeq(queue, i + 1, Len(queue))
      /\ \A id \in Keys :
           /\ Called("Add", id) => KeepsOrder(id)
           /\ Called("Readd", id) => KeepsOrder(id)
           /\ Called("Delete", id) => queue' = queue
      /\ now' # now => queue' = queue
    ]_vars

\* C4 witness: Pop has returned "a" while the live key "b", enqueued behind
\* it, is still pending.
C4_Witness ==
  /\ last.op = "Pop" /\ last.id = "a"
  /\ queue = <<"b">> /\ Live(items, "b")

\* The values of a map handed to Replace, as a bag.
BagOf(idToObj) ==
  [v \in {idToObj[id] : id \in DOMAIN idToObj} |->
     Cardinality({id \in DOMAIN idToObj : idToObj[id] = v})]

\* C5 (Replace result): after Replace(newState), List() holds exactly the
\* values of newState, ContainedIDs() is its key set, and pending holds each
\* key of newState once and no other key.
C5_ReplaceResult ==
  [][\A idToObj \in NewStates :
       (Called("Replace", "a") /\ Replace(idToObj)) =>
         /\ List(items') = BagOf(idToObj)
         /\ ContainedIDs(items') = DOMAIN idToObj
         /\ \A id \in Keys :
              Count(queue', id) = IF id \in DOMAIN idToObj THEN 1 ELSE 0]_vars

\* The call hands v for id to merge: Add, Update, a Readd that passes its
\* guard, or a Replace whose map holds id -> v.
Supplies(id, v) ==
  \/ Called("Add", id) /\ Add(id, v)
  \/ /\ Called("Readd", id)
     /\ \E t \in Masks : (t \div items[id].event) % 2 = 1 /\ Readd(id, v, t)
  \/ /\ Called("Replace", "a")
     /\ \E idToObj \in NewStates :
          id \in DOMAIN idToObj /\ idToObj[id] = v /\ Replace(idToObj)

\* The two notifications of a hidden delete of id by v, in order.
HiddenDeleteNotes(id, v) ==
  << [value |-> items[id].value, event |-> DELETE_EVENT, tomb |-> TRUE,
      expiration |-> now + LingerTTL],
     [value |-> v, event |-> ADD_EVENT, tomb |-> FALSE, expiration |-> 0] >>

\* s occurs in n as a run of consecutive elements.
OccursIn(s, n) ==
  \E i \in 0..(Len(n) - Len(s)) : SubSeq(n, i + 1, i + Len(s)) = s

\* C6 (hidden-delete ordering): a call that supplies for a live key K a value
\* with another unique identifier emits the tombstone of the old value and
\* then the Add of the new one, stores the new Add-tagged entry, and K
\* occupies one pending slot.
C6_HiddenDelete ==
  [][\A id \in Keys : \A v \in ValsOf(id) :
       (Live(items, id) /\ items[id].value.uid # v.uid /\ Supplies(id, v)) =>
         /\ OccursIn(HiddenDeleteNotes(id, v), notifications')
         /\ (last'.op = "Replace" \/ notifications' = HiddenDeleteNotes(id, v))
         /\ items'[id] = [value |-> v, event |-> ADD_EVENT, tomb |-> FALSE, expiration |-> 0]
         /\ Count(queue', id) = 1]_vars

\* The notification part of C6 alone: tombstone first, Add second, and the
\* new Add-tagged entry stored.
HiddenDeleteOrder ==
  [][\A id \in Keys : \A v \in ValsOf(id) :
       (Live(items, id) /\ items[id].value.uid # v.uid /\ Supplies(id, v)) =>
         /\ OccursIn(HiddenDeleteNotes(id, v), notifications')
         /\ (last'.op = "Replace" \/ notifications' = HiddenDeleteNotes(id, v))
         /\ items'[id] = [value |-> v, event |-> ADD_EVENT, tomb |-> FALSE, expiration |-> 0]]_vars

\* C7 (Readd on an absent key behaves like Add): Readd(K, v, mask) on a key
\* without entry stores an Add-tagged entry for v, emits one Add notification
\* and appends K to pending.
C7_ReaddAbsent ==
  [][\A id \in Keys : \A v \in ValsOf(id) : \A t \in Masks :
       (id \notin DOMAIN items /\ Called("Readd", id) /\ Readd(id, v, t)) =>
         /\ items'[id] = [value |-> v, event |-> ADD_EVENT, tomb |-> FALSE, expiration |-> 0]
         /\ notifications' = <<items'[id]>>
         /\ Len(queue') > 0 /\ queue'[Len(queue')] = id
         /\ Count(queue', id) = 1]_vars
\* The event tag ev is not among the bits of the mask t.
NotInMask(ev, t) == (t \div ev) % 2 = 0

\* C8 (Readd guard is a pure no-op): a Readd(K, v, t) on a key whose entry's
\* tag is not in t leaves items, pending, the merge counter and the
\* consumer's position unchanged (nothing is woken) and emits nothing.
C8_ReaddGuardNoOp ==
  [][\A id \in Keys : \A t \in Masks :
       (/\ id \in DOMAIN items /\ NotInMask(items[id].event, t)
        /\ Called("Readd", id) /\ last'.mask = t) =>
         /\ items' = items
         /\ queue' = queue
         /\ gcc' = gcc
         /\ consumer' = consumer
         /\ notifications' = <<>>]_vars

\* C8 witness: Readd(a, v, ADD_EVENT) has returned on an Update-tagged entry
\* without a notification (a Readd that merges into an Add-tagged entry and
\* leaves an Update-tagged one emits the Update).
C8_Witness ==
  /\ last = Call("Readd", "a", ADD_EVENT)
  /\ "a" \in DOMAIN items /\ items["a"].event = UPDATE_EVENT
  /\ notifications = <<>>

\* C9 as claimed (Readd on a tombstoned key): Readd(K, v, ADD_EVENT) on a
\* Delete-tagged entry re-adds K: a live Add-tagged entry holding v, K
\* pending, one Add notification.
C9_ReaddTombstoneAsClaimed ==
  [][\A id \in Keys : \A v \in ValsOf(id) :
       (id \in DOMAIN items /\ items[id].event = DELETE_EVENT
        /\ Called("Readd", id) /\ Readd(id, v, ADD_EVENT)) =>
         /\ items'[id] = [value |-> v, event |-> ADD_EVENT, tomb |-> FALSE, expiration |-> 0]
         /\ Count(queue', id) >= 1
         /\ notifications' = <<items'[id]>>]_vars

\* C9 amended: on a Delete-tagged entry, Readd(K, v, t) with a mask without
\* the Delete bit (ADD_EVENT among them) changes nothing and emits nothing.
\* With a mask that has the Delete bit, K is appended to pending and merged:
\* a v that differs from the tombstone's value is stored as a live
\* Update-tagged entry with one Update notification; a deep-equal v leaves
\* the tombstone (until a sweep reclaims it) and emits nothing.
C9_ReaddTombstone ==
  [][\A id \in Keys : \A v \in ValsOf(id) : \A t \in Masks :
       (/\ id \in DOMAIN items /\ items[id].event = DELETE_EVENT
        /\ Called("Readd", id) /\ last'.mask = t /\ Readd(id, v, t)) =>
         IF NotInMask(DELETE_EVENT, t)
         THEN /\ items' = items /\ queue' = queue /\ gcc' = gcc
              /\ notifications' = <<>>
         ELSE IF v # items[id].value
         THEN /\ items'[id] = [value |-> v, event |-> UPDATE_EVENT, tomb |-> FALSE, expiration |-> 0]
              /\ notifications' = <<items'[id]>>
              /\ queue' = Survivors(Append(queue, id))
              /\ Count(queue', id) = Count(queue, id) + 1
         ELSE /\ notifications' = <<>>
              /\ queue' = Survivors(Append(queue, id))
              /\ id \in DOMAIN items' => items'[id] = items[id]
              /\ id \notin DOMAIN items' => items[id].expiration < now]_vars

\* C9 witness: Readd(a, v, ADD_EVENT) has returned and a's entry is a
\* tombstone (Readd makes none): the guard turned the call down.
C9_Witness ==
  /\ last = Call("Readd", "a", ADD_EVENT)
  /\ "a" \in DOMAIN items /\ items["a"].tomb /\ items["a"].event = DELETE_EVENT
  /\ notifications = <<>>

\* C10 (Pop returns an enqueue cycle once, and no stale key): a Pop that
\* returns, returns the value of a key that was live at dequeue time, after
\* discarding only stale slots, and tags it Pop; a Pop that finds no live
\* slot discards them all, returns nothing and waits; and a key that is not
\* live (so also one Pop has returned) becomes live again only by an
\* Add/Update/Readd of it or a Replace that holds it.
C10_PopOnce ==
  [][
      /\ \A k \in Keys :
           Called("Pop", k) =>
             /\ Live(items, k)
             /\ notifications' = <<[value |-> items[k].value, event |-> POP_EVENT,
                                    tomb |-> FALSE, expiration |-> 0]>>
             /\ items' = [items EXCEPT ![k] = notifications'[1]]
             /\ ~Live(items', k)
             /\ \E i \in 1..Len(queue) :
                  /\ queue[i] = k
                  /\ \A j \in 1..(i - 1) : ~Live(items, queue[j])
                  /\ queue' = SubSeq(queue, i + 1, Len(queue))
             /\ consumer' = "idle"
      /\ Called("PopWait", "a") =>
             /\ \A i \in 1..Len(queue) : ~Live(items, queue[i])
             /\ queue' = <<>>
             /\ items' = items
             /\ notifications' = <<>>
             /\ consumer' = "waiting"
      /\ \A id \in Keys :
           (~Live(items, id) /\ Live(items', id)) =>
             \/ Called("Add", id) /\ \E v \in ValsOf(id) : Add(id, v) \/ Update(id, v)
             \/ Called("Readd", id) /\ \E v \in ValsOf(id) : \E t \in Masks : Readd(id, v, t)
             \/ /\ Called("Replace", "a")
                /\ \E idToObj \in NewStates : id \in DOMAIN idToObj /\ Replace(idToObj)
    ]_vars

\* C10 witness: after Pop returned "a", the next Pop found pending holding
\* nothing live and waits.
C10_Witness ==
  /\ last.op = "PopWait" /\ consumer = "waiting"
  /\ "a" \in DOMAIN items /\ items["a"].event = POP_EVENT
  /\ queue = <<>>

\* its without the entry of id.
Without(its, id) == [k \in (DOMAIN its) \ {id} |-> its[k]]

\* No read-only query shows id: Get finds nothing, ContainedIDs omits it and
\* List holds what it would hold without id's entry.
NotVisible(its, id) ==
  /\ Get(its, id) = <<NoVal, FALSE>>
  /\ id \notin ContainedIDs(its)
  /\ List(its) = List(Without(its, id))

\* The step is a call that hands a value for id to the store: Add/Update or
\* Readd of id, or a Replace whose map holds id.
SuppliedBy(id) ==
  \/ Called("Add", id)
  \/ Called("Readd", id)
  \/ /\ Called("Replace", "a")
     /\ \E idToObj \in NewStates : id \in DOMAIN idToObj /\ Replace(idToObj)

\* C11 (tombstone visibility): a Delete(K) on a live key leaves K invisible
\* to Get, List and ContainedIDs; a key that is invisible (Delete-tagged,
\* Pop-tagged, or reclaimed by a sweep) stays invisible over every step that
\* is not an Add/Update/Readd of K or a Replace holding K, a sweep included.
C11_TombstoneInvisible ==
  [][\A id \in Keys :
       /\ (Called("Delete", id) /\ Live(items, id)) =>
            /\ items'[id].tomb
            /\ NotVisible(items', id)
       /\ (Called("Pop", id)) => NotVisible(items', id)
       /\ (items' # items /\ NotVisible(items, id) /\ ~NotVisible(items', id)) =>
            SuppliedBy(id)
    ]_vars

\* C11 witness: "a" was deleted, its tombstone has outlived its expiration
\* and an Add of "b", its slot is still in pending, and it is not visible.
C11_Witness ==
  /\ last.op = "Add" /\ last.id = "b"
  /\ "a" \in DOMAIN items /\ items["a"].tomb /\ items["a"].expiration < now
  /\ Count(queue, "a") = 1
  /\ NotVisible(items, "a")

\* A plain record, as a notification shows it.
Plain(v, ev) == [value |-> v, event |-> ev, tomb |-> FALSE, expiration |-> 0]

\* A tombstone record, as a notification shows it.
Tomb(v, exp) == [value |-> v, event |-> DELETE_EVENT, tomb |-> TRUE, expiration |-> exp]

\* What a Replace may emit for the key id of its map, holding v: one Add for
\* an unseen key, the tombstone and the Add for a non-Delete entry with
\* another identifier, one Update for another value otherwise, nothing for
\* an unchanged value.  An expired tombstone may have been reclaimed by a
\* sweep earlier in the same call; the key is then unseen.
ReplaceExpected(id, v) ==
  IF id \notin DOMAIN items THEN {<<Plain(v, ADD_EVENT)>>}
  ELSE LET e == items[id]
       IN (IF e.event # DELETE_EVENT /\ e.value.uid # v.uid
           THEN {<<Tomb(e.value, now + LingerTTL), Plain(v, ADD_EVENT)>>}
           ELSE IF e.value # v THEN {<<Plain(v, UPDATE_EVENT)>>}
           ELSE {<<>>})
          \cup (IF e.event = DELETE_EVENT /\ e.expiration < now
                THEN {<<Plain(v, ADD_EVENT)>>} ELSE {})

\* The notification runs of the keys of idToObj visited in the order ord.
RECURSIVE ReplaceRuns(_, _, _)
ReplaceRuns(idToObj, ord, i) ==
  IF i > Len(ord) THEN {<<>>}
  ELSE {x \o y : x \in ReplaceExpected(ord[i], idToObj[ord[i]]),
                 y \in ReplaceRuns(idToObj, ord, i + 1)}

\* What every Replace(idToObj) leaves behind: pending holds keys of the map
\* only, and a key of the map that is stored holds the map's value.
ReplaceFits(idToObj) ==
  /\ \A i \in 1..Len(queue') : queue'[i] \in DOMAIN idToObj
  /\ \A id \in DOMAIN idToObj : id \in DOMAIN items' => items'[id].value = idToObj[id]

\* C12 (Replace notifications): Replace(newState) first emits one tombstone
\* with a fresh expiration for every key that held a non-Delete entry and is
\* absent from newState, and stores it; it emits none for a key that was
\* already tombstoned and leaves that tombstone as it was (or to a sweep, once
\* expired); then it emits for each key of newState what merge emits.
C12_ReplaceNotes ==
  [][\A idToObj \in NewStates :
       (Called("Replace", "a") /\ ReplaceFits(idToObj) /\ Replace(idToObj)) =>
         LET D == {id \in DOMAIN items :
                     id \notin DOMAIN idToObj /\ items[id].event # DELETE_EVENT}
             Old == {id \in DOMAIN items :
                       id \notin DOMAIN idToObj /\ items[id].event = DELETE_EVENT}
         IN /\ \E o1 \in Orders(D) : \E o2 \in Orders(DOMAIN idToObj) :
                 \E run \in ReplaceRuns(idToObj, o2, 1) :
                   notifications' =
                     [i \in 1..Len(o1) |-> Tomb(items[o1[i]].value, now + LingerTTL)] \o run
            /\ \A id \in D :
                 id \in DOMAIN items' /\ items'[id] = Tomb(items[id].value, now + LingerTTL)
            /\ \A id \in Old :
                 IF id \in DOMAIN items' THEN items'[id] = items[id]
                 ELSE items[id].expiration < now]_vars

\* C12 witness: a Replace holding only "b" has tombstoned the live "a" and
\* added the unseen "b": the tombstone first, then the Add.
C12_Witness ==
  /\ last.op = "Replace"
  /\ Len(notifications) = 2
  /\ notifications[1].tomb /\ notifications[2].event = ADD_EVENT
  /\ DOMAIN items = {"a", "b"}
  /\ items["a"] = notifications[1]
  /\ items["b"] = notifications[2]
  /\ queue = <<"b">>

\* C15 (tombstones never re-enter pending through the merge path): when an
\* Add/Update/Readd of K, or a Replace holding K, has appended K to pending,
\* the entry stored for K after the call is not a tombstone, also when the
\* supplied value is deep-equal to the tombstone's value.
C15_NoTombstonePending ==
  [][\A id \in Keys :
       (\/ /\ Called("Add", id) \/ Called("Readd", id)
           /\ Count(queue', id) > Count(queue, id)
        \/ /\ Called("Replace", "a")
           /\ Count(queue', id) > 0)
       => /\ id \in DOMAIN items'
          /\ items'[id].event # DELETE_EVENT
          /\ ~items'[id].tomb]_vars

\* C16 (queue-in-set): every key that occurs in pending has an entry in
\* items.
C16_QueueInSet ==
  \A i \in 1..Len(queue) : queue[i] \in DOMAIN items

\* C16 witness: an Add of "a" appended a slot for the expired tombstone of
\* "a" (same value, so merge stored nothing) and the sweep of that merge took
\* the entry and the slot away together; "b" is still pending.
C16_Witness ==
  /\ last.op = "Add" /\ last.id = "a"
  /\ "a" \notin DOMAIN items
  /\ Count(queue, "a") = 0
  /\ Count(queue, "b") = 1

\* The number of merge calls of the step: one for Add/Update and for a Readd
\* that passes its guard, one per key of the map for Replace.
Merges ==
  IF last'.op = "Add" THEN {1}
  ELSE IF last'.op = "Readd"
  THEN {IF ReaddRejects(items, last'.id, last'.mask) THEN 0 ELSE 1}
  ELSE IF last'.op = "Replace"
  THEN {Cardinality(DOMAIN idToObj) : idToObj \in {m \in NewStates : Replace(m)}}
  ELSE {0}

\* The keys whose entry the step removed from items.
Removed == (DOMAIN items) \ (DOMAIN items')

\* C17 (GC reclamation): only a step that merges removes entries, and only
\* when its merge count reaches the GC period; such a sweep removes every
\* tombstone whose expiration is before the current time and nothing else
\* and leaves no slot of a removed key in pending.  Around a sweep, an
\* Add/Readd of K leaves every entry other than K's as it was, keeps
\* pending in order (plus K's new slot at the tail) without the removed
\* keys, and takes no slot of a key that is live away.
C17_GcReclaims ==
  [][
      /\ now' = now =>
           /\ \A id \in Removed :
                /\ items[id].tomb /\ items[id].event = DELETE_EVENT
                /\ items[id].expiration < now
                /\ Count(queue', id) = 0
                /\ \E n \in Merges : gcc + n >= GCInterval
           /\ \/ \A id \in DOMAIN items' :
                   ~(items'[id].event = DELETE_EVENT /\ items'[id].expiration < now)
              \/ \E n \in Merges : gcc + n < GCInterval
      /\ \A id \in Keys :
           (Called("Add", id) \/ (Called("Readd", id) /\ Merges = {1})) =>
             /\ gcc' = (gcc + 1) % GCInterval
             /\ \A k \in (DOMAIN items') \ {id} : items'[k] = items[k]
             /\ \/ queue' = SelectSeq(queue, LAMBDA k : k \notin Removed)
                \/ queue' = SelectSeq(Append(queue, id), LAMBDA k : k \notin Removed)
             /\ \A k \in Keys : Live(items, k) => Count(queue', k) >= Count(queue, k)
    ]_vars

\* C17 witness: a Readd of "a" with a mask that holds Delete met the expired
\* tombstone of "a" with the same value; the sweep of its merge reclaimed
\* the entry and its slots, and kept the live "b" and its slot.
C17_Witness ==
  /\ last.op = "Readd" /\ last.id = "a"
  /\ "a" \notin DOMAIN items
  /\ now > 0 /\ gcc = 0
  /\ queue = <<"b">> /\ Live(items, "b")

\* C19 (every live entry is pending): each key whose entry is live occurs at
\* least once in pending.
C19_LivePending ==
  \A id \in Keys : Live(items, id) => Count(queue, id) >= 1

\* C20 (tag and record shape agree): a stored entry is Delete-tagged exactly
\* when it is a tombstone record with an expiration; every other stored entry
\* is a plain record tagged Add, Update or Pop.
C20_TagShape ==
  \A id \in DOMAIN items :
    /\ items[id].event = DELETE_EVENT <=> items[id].tomb
    /\ ~items[id].tomb =>
         /\ items[id].event \in {ADD_EVENT, UPDATE_EVENT, POP_EVENT}
         /\ items[id].expiration = 0
    /\ items[id].tomb => items[id].expiration >= LingerTTL

\* C20 witness: Delete has converted the plain record of "a", which has no
\* slot in pending, to a tombstone while "b" holds a plain record.
C20_Witness ==
  /\ last.op = "Delete" /\ last.id = "a"
  /\ "a" \in DOMAIN items /\ items["a"].tomb
  /\ Count(queue, "a") = 0
  /\ notifications = <<items["a"]>>
  /\ "b" \in DOMAIN items /\ ~items["b"].tomb

\* The step is th's deferred loop handing a notification to the carrier.
CarriedBy(th) == Len(held'[th]) < Len(held[th])

\* What the notifications h showed when they were produced, in order.
MadeOf(h) == [i \in 1..Len(h) |-> h[i].made]

\* C13 (delivery outside the lock, in mutation order): a goroutine holds the
\* lock exactly while it is in its critical section; the section hands
\* nothing to the carrier and leaves its notifications in the order it
\* produced them; every hand-over to the carrier is made by a goroutine that
\* has released the lock and is of the oldest notification of its call not
\* yet handed over, so that the lock is never held by a goroutine that is
\* in the carrier.
C13_DeliveryAfterUnlock ==
  /\ [](\A th \in Threads :
          /\ lock = th <=> pc[th] = "locked"
          /\ pc[th] = "carry" => held[th] # <<>>
          /\ pc[th] \in {"idle", "waiting", "woken"} => held[th] = <<>>)
  /\ [][\A th \in Threads :
          /\ (lock # th /\ lock' = th) =>
               /\ MadeOf(held'[th]) = notifications'
               /\ channel' = channel
          /\ CarriedBy(th) =>
               /\ lock # th /\ lock' = lock
               /\ pc[th] = "carry"
               /\ channel'.by = th
               /\ channel'.made = held[th][1].made
               /\ MadeOf(held'[th]) = Tail(MadeOf(held[th]))
               /\ items' = items /\ queue' = queue]_vars

\* C13 witness: goroutine 1 has handed the tombstone of a hidden delete to
\* the carrier and still has the Add to hand over, while goroutine 2 holds
\* the lock.
C13_Witness ==
  /\ pc[1] = "carry" /\ Len(held[1]) = 1
  /\ held[1][1].made.event = ADD_EVENT
  /\ channel.by = 1 /\ channel.msg.tomb
  /\ lock = 2

\* C14 (notification content under concurrency): every message the carrier
\* sends carries the tag and the value its entry had when the critical
\* section produced it.
C14_ContentAsMade ==
  channel.msg = channel.made

\* A slot of pending holds the key of a live entry.
LivePending == \E i \in 1..Len(queue) : Live(items, queue[i])

\* th is suspended inside Pop.
InPop(th) == pc[th] \in {"waiting", "woken"}

\* C18 (no lost wake-up): a goroutine is in cond.Wait only while pending is
\* empty, and under fair scheduling a goroutine suspended in Pop while a live
\* key is pending either returns from Pop or the live key leaves pending (an
\* other consumer took it, or it was deleted).
C18_NoLostWakeup ==
  /\ [](\A th \in Threads : pc[th] = "waiting" => queue = <<>>)
  /\ \A th \in Threads :
       (InPop(th) /\ LivePending) ~> (~InPop(th) \/ ~LivePending)

\* C18 witness: goroutine 1 was suspended in Pop; the Add of goroutine 2,
\* which has returned, has woken it, and a live key is pending.
C18_Witness ==
  /\ pc[1] = "woken" /\ pc[2] = "idle"
  /\ lock = 0
  /\ LivePending
====
